---- MODULE Spec2Model ----
(***************************************************************************)
(* Model of the meeting-notification bot.                                  *)
(*                                                                         *)
(*   src/bot.py       scheduled_meetings_check (the poll loop), the        *)
(*                    command handlers /settoken and /reset                *)
(*   src/database.py  the SQLite state store (tables known_events,         *)
(*                    started_events, processed_events)                    *)
(*                                                                         *)
(* Time is counted in minutes.  A timestamp of an event is the instant the *)
(* provider reports (an RFC 3339 dateTime with offset).                    *)
(*                                                                         *)
(* The poll loop is a coroutine: other handlers, the clock and the         *)
(* calendar only move while the loop is suspended in an await (the sleep,  *)
(* the calendar fetch, a bot.send_message).  Every await of the loop is a  *)
(* value of pc; the code between two awaits runs in steps that nothing     *)
(* else interleaves with.                                                  *)
(***************************************************************************)
EXTENDS Integers, Sequences, FiniteSets, TLC

(* ------------------------------ universe ------------------------------ *)

Users == {"u1", "u2"}

EventIds == {"e1", "e2"}

\* os.getenv("USER_ID") when the variable is not set
None == "None"

\* instants at which the wall clock is observed
ClockPoints == {0, 1, 16, 47, 1500}

\* start instants the provider reports for an event
StartTimes == {16, 62, 1516}

\* the events whose start the organiser moves; the events that may have no link
Movable == {"e1"}
Offline == {"e2"}

\* the lead times a user sets in user_settings.reminder_time
LeadTimes == {5, 15, 30}

\* length of a meeting, minutes
MeetingMinutes == 30

\* number of process restarts explored
MaxRestarts == 1

\* number of events in one calendar
MaxEvents == 2

(* --------------------------- program constants ------------------------- *)

\* timedelta(minutes=15): the reminder window
REMINDER_MINUTES == 15

\* database.py 76: reminder_time INTEGER DEFAULT 15
REMINDER_DEFAULT == 15

\* timedelta(minutes=30): processed_events entries are dropped after this
PROCESSED_KEEP_MINUTES == 30

\* timedelta(days=1): known_events entries are dropped after this
KNOWN_KEEP_MINUTES == 1440

\* minutes in a day (the fetch window starts at the beginning of today)
DAY_MINUTES == 1440

\* database.py 185: clean_old_auth_states(hours=24), in minutes
AUTH_KEEP_MINUTES == 1440

\* timedelta(days=7), in minutes: the window of /check
WEEK_MINUTES == 10080

\* timedelta(days=7, hours=23, minutes=59, seconds=59), in whole minutes
WINDOW_MINUTES == 11519

(* ------------------------------- state --------------------------------- *)

VARIABLES
    \* --- the program
    tokens,            \* users that have a token_<user>.json in TOKEN_DIR
    USER_ID,           \* the module global: the chat every notification goes to
    known_events,      \* dict event_id -> [end_time]
    processed_events,  \* dict event_id -> [start_time]
    started_events,    \* dict event_id -> [summary]
    known_file,        \* known_events.json:     [exists, data]
    processed_file,    \* processed_events.json: [exists, data]
    started_file,      \* started_events.json:   [exists, data]
    pc,                \* the await / statement the poll loop is at
    queue,             \* token_files still to visit in this cycle (current one first)
    events,            \* the events list of the current user's pass
    now,               \* `now` of the current user's pass
    idx,               \* position of the running for-loop in events (1-based)
    check,             \* the /check handler in flight: its await and its locals
    \* --- the environment
    clock,             \* the wall clock
    calendar,          \* the provider: user -> dict event_id -> [start, end, link]
    restarts,          \* process restarts so far
    db,                \* the SQLite store: table -> rows, by primary key
    added,             \* rows the store was asked to hold and not asked to delete
    call,              \* the latest call of a settings or statistics function of the
                       \* store or of get_upcoming_events: [op, user, key, value, ret,
                       \* seq]
    date_str,          \* the argument of a call of safe_parse_datetime
    parsed,            \* what the call returned or raised: <<>> before it ends
    \* --- observation of the run (read by the properties only)
    sent,              \* notifications the current pass has handed to bot.send_message
    outcome,           \* how the most recent pass ended
    failed,            \* the notification whose send raised in the most recent pass
    pre,               \* what the dicts held when the current pass began
    clean,             \* user -> the user's last pass completed and nothing changed since
    reminded,          \* <<event_id, start>> reminded by earlier passes of this run
    shadow,            \* the three dicts as they would be had the process never restarted
    resetSeen,         \* /reset has deleted the files at least once
    redundant,         \* notifications a never-restarted loop would not have sent
    tracked,           \* user -> the events the user's earlier passes have met
    hist               \* what earlier passes of this run saw: [missed, stale, begun,
                       \* reset], and what the last /check reported: told

prog == <<tokens, USER_ID, known_events, processed_events, started_events,
          known_file, processed_file, started_file, pc, queue, events, now, idx, check>>
store == <<db, added, call>>
parse == <<date_str, parsed>>
env  == <<clock, calendar, restarts, store, parse>>
obs  == <<sent, outcome, failed, pre, clean, reminded, shadow, resetSeen, redundant,
          tracked, hist>>
vars == <<prog, env, obs>>

mem   == <<known_events, processed_events, started_events>>
files == <<known_file, processed_file, started_file>>

(* ------------------------------ dictionaries --------------------------- *)

EmptyDict == [k \in {} |-> [start_time |-> 0]]

Put(d, k, v) == [x \in DOMAIN d \cup {k} |-> IF x = k THEN v ELSE d[x]]

Without(d, ks) == [x \in DOMAIN d \ ks |-> d[x]]

NoFile == [exists |-> FALSE, data |-> EmptyDict]

Dump(d) == [exists |-> TRUE, data |-> d]

\* json.load of a file when it exists, the initial {} otherwise
Load(f) == IF f.exists THEN f.data ELSE EmptyDict

(* ------------------------------ the provider --------------------------- *)

\* how the provider writes an event: "ok" = with a 'summary' and with start and
\* end as date-times with an offset; "untitled" = without the 'summary' key;
\* "naive" = with a start date-time that has no offset
Shapes == {"ok", "untitled", "naive"}

\* an event of a calendar: [start, end, link, shape]; link = it has a hangoutLink
Meetings == [start : StartTimes, end : {s + MeetingMinutes : s \in StartTimes},
             link : BOOLEAN, shape : Shapes]

\* what the provider can report for an event id: a meeting of MeetingMinutes;
\* the organiser moves the meetings of Movable, the others start at the first
\* start time; the meetings of Offline may lack a join link, the others have one;
\* the provider writes them well (Malform is the step that does otherwise)
MeetingsOf(id) ==
    {m \in Meetings :
       /\ m.end = m.start + MeetingMinutes
       /\ m.shape = "ok"
       /\ id \notin Movable => \A s \in StartTimes : m.start <= s
       /\ id \notin Offline => m.link}

\* the calendars that hold events of ids only
Calendars(ids) ==
    {c \in UNION {[S -> UNION {MeetingsOf(id) : id \in S}] : S \in SUBSET ids} :
       /\ Cardinality(DOMAIN c) <= MaxEvents
       /\ \A id \in DOMAIN c : c[id] \in MeetingsOf(id)}

\* datetime.now().replace(hour=0, minute=0, second=0, microsecond=0)
Today(t) == (t \div DAY_MINUTES) * DAY_MINUTES

\* events().list(timeMin, timeMax): events that end after timeMin and start
\* before timeMax
InWindow(m, t) == m.end > Today(t) /\ m.start < Today(t) + WINDOW_MINUTES

Event(cal, id) ==
    [id |-> id, start |-> cal[id].start, end |-> cal[id].end, link |-> cal[id].link,
     shape |-> cal[id].shape]

\* orderBy='startTime': every listing of the window's events by start time
Listings(cal, t) ==
    LET ids == {id \in DOMAIN cal : InWindow(cal[id], t)}
        n   == Cardinality(ids)
    IN  {l \in [1..n -> ids] :
           /\ \A i, j \in 1..n : i < j => l[i] # l[j] /\ cal[l[i]].start <= cal[l[j]].start}

(* ---------------------------- time conditions -------------------------- *)

\* a variant of the comparison of bot.py 259 that counts the instant of the start
NotYetStartedOrNow(start, t) == start >= t

\* bot.py 259: start_dt > now
NotYetStarted(start, t) == start > t

\* a variant of the window of bot.py 299 that is open at the start
UpcomingBeforeStart(start, t) == 0 < start - t /\ start - t <= REMINDER_MINUTES

\* bot.py 299: timedelta(0) <= time_until_start <= timedelta(minutes=15)
Upcoming(start, t) == 0 <= start - t /\ start - t <= REMINDER_MINUTES

\* bot.py 328: start_dt <= now < end_dt
Running(start, end, t) == start <= t /\ t < end

\* bot.py 365-369: an entry with an end_time whose end has passed
StartedExpired(entry, t) ==
    "end_time" \in DOMAIN entry /\ t > entry["end_time"]

\* a variant of the retention of bot.py 391-395 with the 30 minutes taken off
ProcessedExpiredEarly(entry, t) ==
    "start_time" \in DOMAIN entry /\ t > entry["start_time"] - PROCESSED_KEEP_MINUTES

\* bot.py 391-395: 30 minutes after the recorded start
ProcessedExpired(entry, t) ==
    "start_time" \in DOMAIN entry /\ t > entry["start_time"] + PROCESSED_KEEP_MINUTES

\* a variant of the retention of bot.py 417-421 that keeps an entry for two days
KnownExpiredLate(entry, t) ==
    "end_time" \in DOMAIN entry /\ t > entry["end_time"] + 2 * KNOWN_KEEP_MINUTES

\* a variant of the retention of bot.py 417-421 with the day taken off the end
KnownExpiredEarly(entry, t) ==
    "end_time" \in DOMAIN entry /\ t > entry["end_time"] - KNOWN_KEEP_MINUTES

\* bot.py 417-421: one day after the recorded end
KnownExpired(entry, t) ==
    "end_time" \in DOMAIN entry /\ t > entry["end_time"] + KNOWN_KEEP_MINUTES

(* ------------------------------ observation ---------------------------- *)

Kinds == {"NewMeeting", "UpcomingReminder", "MeetingStarted", "MeetingCancelled"}

NoFail == [kind |-> "None", id |-> "None"]

NoPre == [known |-> {}, processed |-> {}, started |-> {}, target |-> None]

\* missed: known events that the last completed pass did not list and that were
\*         no longer on the calendar
\* stale:  <<event_id, end>> of the events recorded in known_events when their
\*         start was not after `now`
\* begun:  events for which an earlier pass handed a MeetingStarted to the bot
\* reset:  "pending" = /reset was sent while the loop slept and no cycle has
\*         begun since; "cycle" = the last cycle that began was the first one
\*         after such a /reset: what its passes find was recorded before it
\* told:   the events that the last /check to report had fetched, and those of
\*         them that it counted as new and stored in processed_events.json
\* saved:  user -> <<>>, or <<[first, last]>>: the time of the first save of
\*         the user's token since the row was last deleted, and the data of
\*         the last save
NoHist == [missed |-> {}, stale |-> {}, begun |-> {}, reset |-> "none",
           told |-> [events |-> <<>>, new |-> {}],
           saved |-> [u \in Users |-> <<>>]]

\* the tables of the store that hold per-event state
Tables == {"known_events", "started_events", "processed_events"}

\* the tables of the store, database.py 13-97
StoreTables == Tables \cup {"user_settings", "meeting_stats", "tokens", "auth_states"}

\* no call of the store is on record; value and ret are <<>> or <<x>>
NoCall == [op |-> "none", user |-> None, key |-> "", value |-> <<>>, ret |-> <<>>,
           seq |-> 0]

\* the user whose calendar the loop is reconciling
user == Head(queue)

Note(kind, e) ==
    [kind |-> kind, id |-> e.id, to |-> USER_ID, owner |-> user, start |-> e.start]

Ids(evs) == {evs[i].id : i \in 1..Len(evs)}

\* entries recorded earlier that the retention rules have not dropped yet
ShadowPut(field, id, entry) ==
    IF id \in DOMAIN shadow[field] THEN shadow
    ELSE [shadow EXCEPT ![field] = Put(@, id, entry)]

\* an emission for an event whose entry a never-restarted loop would still hold
Redundant(kind, field, id) ==
    IF id \in DOMAIN shadow[field] THEN redundant \cup {[kind |-> kind, id |-> id]}
    ELSE redundant

\* no /check in flight.  pc: the await the handler is at; count: new_events_count;
\* fresh: the events counted in it; notes: the events for which the handler has
\* answered with a message
NoCheck ==
    [pc |-> "idle", user |-> None, events |-> <<>>, idx |-> 1, processed |-> EmptyDict,
     count |-> 0, fresh |-> {}, notes |-> {}]

(* --------------------------- safe_parse_datetime ----------------------- *)

\* The text of a timestamp, by its parts: [day, time, zone, junk].  A text with
\* junk = "" reads <day>[T<time><zone>]: day is the date YYYY-MM-DD, time = <<m>>
\* is the time of day HH:MM:SS at minute m (<<>> = a date-only text), zone is the
\* suffix.  A text with another junk is that text, which is no ISO timestamp;
\* junk = None is the value None (bot.py 252: the event has neither 'dateTime'
\* nor 'date').
Days == {0, 1}
TimesOfDay == {0, 16, 62}
Zones == {"", "Z", "+03:00", "-05:00"}
Junk == {"soon", "T-2", "+1", "XYZ"}

Missing == [day |-> 0, time |-> <<>>, zone |-> "", junk |-> None]

DateStrings ==
    {d \in [day : Days, time : {<<>>} \cup {<<m>> : m \in TimesOfDay}, zone : Zones,
            junk : {""}] : d.time = <<>> => d.zone = ""}
    \cup {[day |-> 0, time |-> <<>>, zone |-> "", junk |-> j] : j \in Junk}
    \cup {Missing}

\* the characters of a text among 'Z', '+', '-', 'T'
CharsOf(s) ==
    IF s.junk # ""
    THEN CASE s.junk = "soon" -> {}
           [] s.junk = "T-2"  -> {"T", "-"}
           [] s.junk = "+1"   -> {"+"}
           [] s.junk = "XYZ"  -> {"Z"}
    ELSE {"-"}
         \cup (IF s.time # <<>> THEN {"T"} ELSE {})
         \cup CASE s.zone = ""       -> {}
                [] s.zone = "Z"      -> {"Z"}
                [] s.zone = "+03:00" -> {"+"}
                [] s.zone = "+00:00" -> {"+"}
                [] s.zone = "-05:00" -> {"-"}

\* date_str.endswith('Z')
EndsWithZ(s) == IF s.junk # "" THEN s.junk = "XYZ" ELSE s.zone = "Z"

\* date_str.replace('Z', '+00:00')
ReplaceZ(s) ==
    IF s.junk # "" THEN s ELSE [s EXCEPT !.zone = IF @ = "Z" THEN "+00:00" ELSE @]

\* minutes east of UTC of a zone suffix
ZoneOffset(z) ==
    CASE z \in {"Z", "+00:00"} -> 0
      [] z = "+03:00" -> 180
      [] z = "-05:00" -> 0 - 300

\* what a call gives: a datetime [wall, tz] (wall = its calendar fields in
\* minutes, tz = <<offset>> or <<>> for a naive datetime) or an exception
Return(wall, tz) == [raises |-> "", wall |-> wall, tz |-> tz]
Raise(exc) == [raises |-> exc, wall |-> 0, tz |-> <<>>]

\* datetime.fromisoformat(s)
fromisoformat(s) ==
    IF s.junk # ""
    THEN Raise("ValueError")
    ELSE Return(s.day * DAY_MINUTES + (IF s.time = <<>> THEN 0 ELSE s.time[1]),
                IF s.zone = "" THEN <<>> ELSE <<ZoneOffset(s.zone)>>)

\* d.replace(tzinfo=timezone.utc)
replace_utc(d) == IF d.raises # "" THEN d ELSE Return(d.wall, <<0>>)

\* bot.py 173-184; t = the clock that datetime.now(timezone.utc) reads
safe_parse_datetime(s, t) ==
    LET chars == CharsOf(s)
        try   == IF s = Missing
                 THEN Raise("AttributeError")
                 ELSE IF EndsWithZ(s)
                 THEN fromisoformat(ReplaceZ(s))
                 ELSE IF "+" \in chars \/ ("-" \in chars /\ "T" \in chars)
                 THEN fromisoformat(s)
                 ELSE replace_utc(fromisoformat(s))
    IN  IF try.raises # "" THEN Return(t, <<0>>) ELSE try

\* a call of safe_parse_datetime(date_str) runs to its end
Parse ==
    /\ parsed = <<>>
    /\ parsed' = <<safe_parse_datetime(date_str, clock)>>
    /\ UNCHANGED <<prog, clock, calendar, restarts, store, date_str, obs>>

(* ------------------------------- start-up ------------------------------ *)

Boot ==
    /\ tokens \in SUBSET Users
    /\ USER_ID \in Users \cup {None}
    /\ known_events = EmptyDict
    /\ processed_events = EmptyDict
    /\ started_events = EmptyDict
    /\ known_file = NoFile
    /\ processed_file = NoFile
    /\ started_file = NoFile
    /\ pc = "sleep"
    /\ queue = <<>>
    /\ events = <<>>
    /\ now = 0
    /\ idx = 1
    /\ check = NoCheck
    /\ clock = 0
    /\ calendar = [u \in Users |-> EmptyDict]
    /\ restarts = 0
    /\ db = [t \in StoreTables |-> EmptyDict]
    /\ added = {}
    /\ call = NoCall
    /\ sent = {}
    /\ outcome = "none"
    /\ failed = NoFail
    /\ pre = NoPre
    /\ clean = [u \in Users |-> FALSE]
    /\ tracked = [u \in Users |-> {}]
    /\ hist = NoHist
    /\ reminded = {}
    /\ shadow = [known |-> EmptyDict, processed |-> EmptyDict, started |-> EmptyDict]
    /\ resetSeen = FALSE
    /\ redundant = {}

\* no call of safe_parse_datetime is under observation
Init == Boot /\ date_str = Missing /\ parsed = <<>>

\* start-up of a deployment with one user
InitSolo == Init /\ tokens \subseteq {"u1"} /\ USER_ID \in {"u1", None}

(* ------------------- scheduled_meetings_check: the loop ---------------- *)

Orders(S) ==
    {q \in [1..Cardinality(S) -> S] : \A i, j \in 1..Cardinality(S) : i # j => q[i] # q[j]}

\* bot.py 223-228: wake up, list the token files
ListTokens ==
    /\ pc = "sleep"
    /\ \E q \in Orders(tokens) :
         /\ queue' = q
         /\ pc' = IF q = <<>> THEN "gc" ELSE "fetch"
    /\ hist' = [hist EXCEPT !.reset = IF @ = "pending" THEN "cycle" ELSE "none"]
    /\ UNCHANGED <<check, tokens, USER_ID, mem, files, events, now, idx, env, sent,
                   outcome, failed, pre, clean, reminded, shadow, resetSeen, redundant,
                   tracked>>

\* bot.py 226, 437-441: os.listdir raises; the except of the cycle logs, the
\* clean-up is skipped and the loop sleeps
ListTokensRaises ==
    /\ pc = "sleep"
    /\ outcome' = "list_failed"
    /\ UNCHANGED <<prog, env, sent, failed, pre, clean, reminded, shadow, resetSeen,
                   redundant, tracked, hist>>

\* the for-loop over token_files moves on to the next file, or ends
NextUser ==
    /\ queue' = Tail(queue)
    /\ pc' = IF Tail(queue) = <<>> THEN "gc" ELSE "fetch"

\* the reminders on record when a pass ends, for starts that have not passed:
\* those the pass sent and those it finds in processed_events
RemindedAfter(notes) ==
    {r \in reminded
          \cup {<<n.id, n.start>> : n \in {m \in notes : m.kind = "UpcomingReminder"}}
          \cup {<<id, processed_events[id]["start_time"]>> :
                   id \in {x \in DOMAIN processed_events :
                              "start_time" \in DOMAIN processed_events[x]}} :
       r[2] >= clock}

\* the events for which the notes hold a MeetingStarted
BegunBy(notes) == {n.id : n \in {m \in notes : m.kind = "MeetingStarted"}}

\* bot.py 356-357: an exception inside the user's try block ends the user's pass
Abort(kind, e) ==
    /\ NextUser
    /\ outcome' = "aborted"
    /\ failed' = [kind |-> kind, id |-> e.id]
    /\ clean' = [clean EXCEPT ![user] = FALSE]
    /\ reminded' = RemindedAfter({n \in sent : n.kind # kind \/ n.id # e.id})
    /\ tracked' = [tracked EXCEPT ![user] =
                     @ \cup IF kind \in {"NewMeeting", "Discovery"}
                            THEN {events[i].id : i \in 1..(idx - 1)}
                            ELSE Ids(events)]
    /\ hist' = [hist EXCEPT !.begun = @ \cup BegunBy(sent)]

\* bot.py 236-245: the fetch returns a list; `now` is read
FetchReturns ==
    /\ pc = "fetch"
    /\ \E l \in Listings(calendar[user], clock) :
         events' = [i \in 1..Len(l) |-> Event(calendar[user], l[i])]
    /\ now' = clock
    /\ idx' = 1
    /\ pc' = "discover"
    /\ sent' = {}
    /\ outcome' = "running"
    /\ failed' = NoFail
    /\ pre' = [known |-> DOMAIN known_events, processed |-> DOMAIN processed_events,
               started |-> DOMAIN started_events, target |-> USER_ID]
    /\ UNCHANGED <<check, tokens, USER_ID, mem, files, queue, env, clean, reminded, shadow,
                   resetSeen, redundant, tracked, hist>>

\* a variant of the handling of a fetch that raises, in which the exception ends
\* the for-loop over the token files (as the except of bot.py 437-438 would)
FetchRaisesEndsCycle ==
    /\ pc = "fetch"
    /\ queue' = <<>>
    /\ pc' = "gc"
    /\ sent' = {}
    /\ outcome' = "fetch_failed"
    /\ failed' = NoFail
    /\ UNCHANGED <<check, tokens, USER_ID, mem, files, events, now, idx, env, pre, clean,
                   reminded, shadow, resetSeen, redundant, tracked, hist>>

\* bot.py 236-240, 356-357: the fetch raises; the except logs and the loop
\* goes on with the next token file
FetchRaises ==
    /\ pc = "fetch"
    /\ NextUser
    /\ sent' = {}
    /\ outcome' = "fetch_failed"
    /\ failed' = NoFail
    /\ UNCHANGED <<check, tokens, USER_ID, mem, files, events, now, idx, env, pre, clean,
                   reminded, shadow, resetSeen, redundant, tracked, hist>>

\* bot.py 274-279: the entry of known_events.  Of an entry of the three dicts
\* the model keeps the fields that the code reads back.
KnownEntry(e) == [end_time |-> e.end]

\* bot.py 274-279
RecordKnown(e) ==
    /\ known_events' = Put(known_events, e.id, KnownEntry(e))
    /\ shadow' = ShadowPut("known", e.id, KnownEntry(e))

\* bot.py 248-279: one iteration of the first for-loop, up to its await
Discover ==
    /\ pc = "discover"
    /\ IF idx > Len(events)
       THEN /\ pc' = "remind"
            /\ idx' = 1
            /\ UNCHANGED <<known_events, sent, shadow, redundant, hist>>
       ELSE LET e == events[idx] IN
            IF e.id \in DOMAIN known_events
            THEN /\ idx' = idx + 1
                 /\ UNCHANGED <<pc, known_events, sent, shadow, redundant, hist>>
            ELSE IF e.shape # "ok"
            THEN \* 259: naive start_dt > aware now is a TypeError; 263, 275:
                 \* event['summary'] is a KeyError
                 /\ pc' = "raise_discover"
                 /\ UNCHANGED <<idx, known_events, sent, shadow, redundant, hist>>
            ELSE IF NotYetStarted(e.start, now) /\ e.link
            THEN /\ pc' = "send_new"
                 /\ sent' = sent \cup {Note("NewMeeting", e)}
                 /\ redundant' = Redundant("NewMeeting", "known", e.id)
                 /\ UNCHANGED <<idx, known_events, shadow, hist>>
            ELSE /\ RecordKnown(e)
                 /\ idx' = idx + 1
                 /\ hist' = [hist EXCEPT !.stale =
                               IF e.start <= now THEN @ \cup {<<e.id, e.end>>} ELSE @]
                 /\ UNCHANGED <<pc, sent, redundant>>
    /\ UNCHANGED <<check, tokens, USER_ID, processed_events, started_events, files, queue,
                   events, now, env, outcome, failed, pre, clean, reminded, resetSeen,
                   tracked>>

\* a variant of SendNewReturns that meets the same event again in the first loop
SendNewReturnsAgain ==
    /\ pc = "send_new"
    /\ \E n \in sent : n.kind = "NewMeeting" /\ n.id = events[idx].id /\ n.to # None
    /\ pc' = "discover"
    /\ UNCHANGED <<check, tokens, USER_ID, mem, files, queue, events, now, idx, env, obs>>

\* bot.py 270-279: send_message returned
SendNewReturns ==
    /\ pc = "send_new"
    /\ \E n \in sent : n.kind = "NewMeeting" /\ n.id = events[idx].id /\ n.to # None
    /\ RecordKnown(events[idx])
    /\ idx' = idx + 1
    /\ pc' = "discover"
    /\ UNCHANGED <<check, tokens, USER_ID, processed_events, started_events, files, queue,
                   events, now, env, sent, outcome, failed, pre, clean, reminded,
                   resetSeen, tracked, redundant, hist>>

\* bot.py 356-357: the exception an event's record raised ends the user's pass
PassRaises ==
    /\ pc \in {"raise_discover", "raise_evaluate"}
    /\ Abort(IF pc = "raise_discover" THEN "Discovery" ELSE "Evaluation", events[idx])
    /\ UNCHANGED <<check, tokens, USER_ID, mem, files, events, now, idx, env, sent, pre,
                   shadow, resetSeen, redundant>>

\* bot.py 270, 356-357: send_message raised (it always does for chat_id None)
SendNewRaises ==
    /\ pc = "send_new"
    /\ Abort("NewMeeting", events[idx])
    /\ UNCHANGED <<check, tokens, USER_ID, mem, files, events, now, idx, env, sent, pre,
                   shadow, resetSeen, redundant>>

ProcessedEntry(e) == [start_time |-> e.start]

\* bot.py 314-325: record the reminder and save processed_events.json
RecordProcessed(e) ==
    /\ processed_events' = Put(processed_events, e.id, ProcessedEntry(e))
    /\ processed_file' = Dump(processed_events')
    /\ shadow' = ShadowPut("processed", e.id, ProcessedEntry(e))

\* bot.py 343-347: the entry of started_events (it has no end_time)
StartedEntry(e) == [summary |-> e.id]

\* bot.py 343-354: record the start and save started_events.json
RecordStarted(e) ==
    /\ started_events' = Put(started_events, e.id, StartedEntry(e))
    /\ started_file' = Dump(started_events')
    /\ shadow' = ShadowPut("started", e.id, StartedEntry(e))

\* what the end of a pass sets, apart from pc
ending == <<queue, outcome, clean, reminded, tracked, hist>>

\* the user's pass ran to the end of the second for-loop
Complete ==
    /\ NextUser
    /\ outcome' = "completed"
    /\ clean' = [clean EXCEPT ![user] = (clock = now)]
    /\ reminded' = RemindedAfter(sent)
    /\ tracked' = [tracked EXCEPT ![user] = @ \cup Ids(events)]
    /\ hist' = [hist EXCEPT
                  !.missed = (@ \ Ids(events))
                               \cup (pre.known \ (Ids(events) \cup DOMAIN calendar[user])),
                  !.begun = @ \cup BegunBy(sent)]

\* bot.py 281-325: one iteration of the second for-loop, up to the reminder
Remind ==
    /\ pc = "remind"
    /\ IF idx > Len(events)
       THEN /\ Complete
            /\ UNCHANGED <<idx, processed_events, processed_file, sent, shadow, redundant>>
       ELSE LET e == events[idx] IN
            IF ~e.link
            THEN /\ idx' = idx + 1
                 /\ UNCHANGED <<pc, processed_events, processed_file, sent, shadow,
                                redundant, ending>>
            ELSE IF /\ e.id \notin DOMAIN processed_events
                    /\ \/ e.shape = "naive"
                       \/ e.shape = "untitled" /\ Upcoming(e.start, now)
            THEN \* 297: naive start_dt - aware now is a TypeError; 303:
                 \* event['summary'] is a KeyError
                 /\ pc' = "raise_evaluate"
                 /\ UNCHANGED <<idx, processed_events, processed_file, sent, shadow,
                                redundant, ending>>
            ELSE IF e.id \notin DOMAIN processed_events /\ Upcoming(e.start, now)
            THEN IF USER_ID # None
                 THEN /\ pc' = "send_reminder"
                      /\ sent' = sent \cup {Note("UpcomingReminder", e)}
                      /\ redundant' = Redundant("UpcomingReminder", "processed", e.id)
                      /\ UNCHANGED <<idx, processed_events, processed_file, shadow,
                                     ending>>
                 ELSE /\ RecordProcessed(e)
                      /\ pc' = "started"
                      /\ UNCHANGED <<idx, sent, redundant, ending>>
            ELSE /\ pc' = "started"
                 /\ UNCHANGED <<idx, processed_events, processed_file, sent, shadow,
                                redundant, ending>>
    /\ UNCHANGED <<check, tokens, USER_ID, known_events, started_events, known_file,
                   started_file, events, now, env, failed, pre, resetSeen>>

\* bot.py 310-325: send_message returned
SendReminderReturns ==
    /\ pc = "send_reminder"
    /\ RecordProcessed(events[idx])
    /\ pc' = "started"
    /\ UNCHANGED <<check, tokens, USER_ID, known_events, started_events, known_file,
                   started_file, queue, events, now, idx, env, sent, outcome, failed,
                   pre, clean, reminded, resetSeen, tracked, redundant, hist>>

\* bot.py 310, 356-357: send_message raised
SendReminderRaises ==
    /\ pc = "send_reminder"
    /\ Abort("UpcomingReminder", events[idx])
    /\ UNCHANGED <<check, tokens, USER_ID, mem, files, events, now, idx, env, sent, pre,
                   shadow, resetSeen, redundant>>

\* bot.py 327-354: the second half of the iteration, up to the start message
Started ==
    /\ pc = "started"
    /\ LET e == events[idx] IN
       IF /\ e.id \notin DOMAIN started_events
          /\ \/ e.shape = "naive"
             \/ e.shape = "untitled" /\ Running(e.start, e.end, now)
       THEN \* 328: naive start_dt <= aware now is a TypeError; 332:
            \* event['summary'] is a KeyError
            /\ pc' = "raise_evaluate"
            /\ UNCHANGED <<idx, started_events, started_file, sent, shadow, redundant>>
       ELSE IF e.id \notin DOMAIN started_events /\ Running(e.start, e.end, now)
       THEN IF USER_ID # None
            THEN /\ pc' = "send_started"
                 /\ sent' = sent \cup {Note("MeetingStarted", e)}
                 /\ redundant' = Redundant("MeetingStarted", "started", e.id)
                 /\ UNCHANGED <<idx, started_events, started_file, shadow>>
            ELSE /\ RecordStarted(e)
                 /\ pc' = "remind"
                 /\ idx' = idx + 1
                 /\ UNCHANGED <<sent, redundant>>
       ELSE /\ pc' = "remind"
            /\ idx' = idx + 1
            /\ UNCHANGED <<started_events, started_file, sent, shadow, redundant>>
    /\ UNCHANGED <<check, tokens, USER_ID, known_events, processed_events, known_file,
                   processed_file, queue, events, now, env, outcome, failed, pre, clean,
                   reminded, resetSeen, tracked, hist>>

\* bot.py 339-354: send_message returned
SendStartedReturns ==
    /\ pc = "send_started"
    /\ RecordStarted(events[idx])
    /\ pc' = "remind"
    /\ idx' = idx + 1
    /\ UNCHANGED <<check, tokens, USER_ID, known_events, processed_events, known_file,
                   processed_file, queue, events, now, env, sent, outcome, failed, pre,
                   clean, reminded, resetSeen, tracked, redundant, hist>>

\* a variant in which the exception of the send leaves the coroutine: the loop
\* is over
SendStartedEscapes ==
    /\ pc = "send_started"
    /\ pc' = "dead"
    /\ UNCHANGED <<tokens, USER_ID, mem, files, queue, events, now, idx, check, env, obs>>

\* bot.py 339, 356-357: send_message raised
SendStartedRaises ==
    /\ pc = "send_started"
    /\ Abort("MeetingStarted", events[idx])
    /\ UNCHANGED <<check, tokens, USER_ID, mem, files, events, now, idx, env, sent, pre,
                   shadow, resetSeen, redundant>>

(* ------------------------- the clean-up of a cycle --------------------- *)

\* the locals of the last pass are dead once the for-loop over the token files
\* has ended: the next pass assigns them before it reads them
Forget ==
    /\ events' = <<>>
    /\ now' = 0
    /\ idx' = 1
    /\ sent' = {}
    /\ outcome' = "none"
    /\ failed' = NoFail
    /\ pre' = NoPre

\* the retention rule of each of the three dicts
Old(field, entry, t) ==
    CASE field = "started"   -> StartedExpired(entry, t)
      [] field = "processed" -> ProcessedExpired(entry, t)
      [] field = "known"     -> KnownExpired(entry, t)

\* events_to_remove
Expired(d, field, t) == {id \in DOMAIN d : Old(field, d[id], t)}

\* a dict after its clean-up, and its file: written only if something was removed
Cleaned(d, field, t) == Without(d, Expired(d, field, t))

Saved(f, d, field, t) ==
    IF Expired(d, field, t) # {} THEN Dump(Cleaned(d, field, t)) ELSE f

\* bot.py 359-441: the three clean-ups, then the loop sleeps
CleanUp ==
    /\ pc = "gc"
    /\ started_events' = Cleaned(started_events, "started", clock)
    /\ started_file' = Saved(started_file, started_events, "started", clock)
    /\ processed_events' = Cleaned(processed_events, "processed", clock)
    /\ processed_file' = Saved(processed_file, processed_events, "processed", clock)
    /\ known_events' = Cleaned(known_events, "known", clock)
    /\ known_file' = Saved(known_file, known_events, "known", clock)
    /\ shadow' = [known     |-> Cleaned(shadow.known, "known", clock),
                  processed |-> Cleaned(shadow.processed, "processed", clock),
                  started   |-> Cleaned(shadow.started, "started", clock)]
    /\ pc' = "sleep"
    /\ Forget
    /\ UNCHANGED <<check, tokens, USER_ID, queue, env, clean, reminded, resetSeen, tracked, redundant, hist>>

(* ------------------- what runs while the loop is suspended ------------- *)

\* the loop is suspended in asyncio.sleep, get_upcoming_events or send_message
AtAwait == pc \in {"sleep", "fetch", "send_new", "send_reminder", "send_started"}

\* bot.py 727-780: /settoken with a token that has both fields
SetToken(u) ==
    /\ AtAwait
    /\ tokens' = tokens \cup {u}
    /\ USER_ID' = u
    /\ UNCHANGED <<check, mem, files, pc, queue, events, now, idx, env, obs>>

\* the fields that /settoken looks for, bot.py 744
TokenFields == {"token", "refresh_token"}

\* The text after /settoken, by what json.loads makes of it: kind "invalid" is
\* no JSON, "scalar" a number, true, false or null, "object", "array" and
\* "string" the JSON values of these kinds.  has: the fields among the keys of
\* an object, among the elements of an array, or that a string contains (a
\* string that contains refresh_token contains token)
TokenTexts ==
    {x \in [kind : {"invalid", "scalar", "object", "array", "string"},
            has : SUBSET TokenFields] :
       /\ x.kind \in {"invalid", "scalar"} => x.has = {}
       /\ (x.kind = "string" /\ "refresh_token" \in x.has) => "token" \in x.has}

\* bot.py 739-746: "saved" if the text passes json.loads and the test of 744,
\* else the answer that the handler gives.  `in` on a dict looks at the keys, on
\* a list at the elements, on a str at the substrings; on a number, a bool or
\* None it raises TypeError, which the except of 783 catches
TokenVerdict(text) ==
    IF text.kind = "invalid" THEN "bad_json"
    ELSE IF text.kind = "scalar" THEN "error"
    ELSE IF TokenFields \subseteq text.has THEN "saved"
    ELSE "fields_missing"

\* bot.py 727-785: /settoken with any text after the command
set_token_command(u, text) ==
    /\ AtAwait
    /\ IF TokenVerdict(text) = "saved"
       THEN tokens' = tokens \cup {u} /\ USER_ID' = u
       ELSE UNCHANGED <<tokens, USER_ID>>
    /\ call' = [op |-> "settoken", user |-> u, key |-> text.kind, value |-> <<text.has>>,
                ret |-> <<TokenVerdict(text)>>, seq |-> 1 - call.seq]
    /\ UNCHANGED <<check, mem, files, pc, queue, events, now, idx, clock, calendar,
                   restarts, db, added, parse, obs>>

\* bot.py 147-170: /reset removes the three files; the loop's dicts stay
Reset ==
    /\ AtAwait
    /\ known_file' = NoFile
    /\ processed_file' = NoFile
    /\ started_file' = NoFile
    /\ resetSeen' = TRUE
    /\ hist' = [hist EXCEPT !.reset = IF pc = "sleep" THEN "pending" ELSE @]
    /\ UNCHANGED <<check, tokens, USER_ID, mem, pc, queue, events, now, idx, env, sent,
                   outcome, failed, pre, clean, reminded, shadow, redundant, tracked>>

\* bot.py 189-221: the process starts again; the dicts are loaded from the files
Restart ==
    /\ AtAwait
    /\ restarts < MaxRestarts
    /\ restarts' = restarts + 1
    /\ known_events' = Load(known_file)
    /\ processed_events' = Load(processed_file)
    /\ started_events' = Load(started_file)
    /\ pc' = "sleep"
    /\ queue' = <<>>
    /\ Forget
    /\ clean' = [u \in Users |-> FALSE]
    /\ reminded' = {}
    /\ tracked' = [u \in Users |-> {}]
    /\ hist' = [NoHist EXCEPT !.saved = hist.saved]
    /\ UNCHANGED <<check, tokens, USER_ID, files, clock, calendar, store, parse, shadow, resetSeen,
                   redundant>>

\* time passes.  The loop reads the clock after the fetch (bot.py 245) and in the
\* clean-up (bot.py 360, 386, 412): these are the places where the time that has
\* passed shows.  A reminder of a meeting that has begun is history: no reminder
\* can follow it (bot.py 299).
Tick ==
    /\ pc \in {"sleep", "fetch", "gc"}
    /\ \E t \in ClockPoints : t > clock /\ clock' = t
    /\ clean' = [u \in Users |-> FALSE]
    /\ reminded' = {r \in reminded : r[2] >= clock'}
    /\ UNCHANGED <<prog, calendar, restarts, store, parse, sent, outcome, failed, pre,
                   shadow, resetSeen, tracked, redundant, hist>>

\* the owner of a calendar adds, removes or moves meetings (those of ids).  The
\* loop sees a calendar only in the fetch of its owner's pass, so a change at any
\* moment is a change before the cycle that fetches it.
CalendarChange(u, ids) ==
    /\ pc = "sleep"
    /\ \E c \in Calendars(ids) : c # calendar[u] /\ calendar' = [calendar EXCEPT ![u] = c]
    /\ clean' = [clean EXCEPT ![u] = FALSE]
    /\ UNCHANGED <<prog, clock, restarts, store, parse, sent, outcome, failed, pre, reminded,
                   shadow, resetSeen, tracked, redundant, hist>>

\* the provider comes to write an event of the calendar in another shape (an
\* event whose title was cleared has no 'summary' key)
Malform(u, id, shape) ==
    /\ pc = "sleep"
    /\ id \in DOMAIN calendar[u]
    /\ calendar[u][id].shape # shape
    /\ calendar' = [calendar EXCEPT ![u][id].shape = shape]
    /\ clean' = [clean EXCEPT ![u] = FALSE]
    /\ UNCHANGED <<prog, clock, restarts, store, parse, sent, outcome, failed, pre, reminded,
                   shadow, resetSeen, tracked, redundant, hist>>

(* ---------------------- force_check_meetings: /check ------------------- *)

\* bot.py 566-570: events().list(timeMin=now, timeMax=now + 7 days)
CheckListings(cal, t) ==
    LET ids == {id \in DOMAIN cal : cal[id].end > t /\ cal[id].start < t + WEEK_MINUTES}
        n   == Cardinality(ids)
    IN  {l \in [1..n -> ids] :
           /\ \A i, j \in 1..n : i < j => l[i] # l[j] /\ cal[l[i]].start <= cal[l[j]].start}

\* bot.py 591-594: the entry that /check stores (it has no start_time)
CheckEntry(e) == [summary |-> e.id]

\* bot.py 583-608: the for-loop of /check from position c.idx up to its next
\* await: the answer for a new event with a link, or the report after the loop
RECURSIVE CheckScan(_)
CheckScan(c) ==
    IF c.idx > Len(c.events) THEN [c EXCEPT !.pc = "report"]
    ELSE LET e == c.events[c.idx] IN
         IF e.id \in DOMAIN c.processed THEN CheckScan([c EXCEPT !.idx = @ + 1])
         ELSE LET d == [c EXCEPT !.count = @ + 1, !.fresh = @ \cup {e.id},
                                 !.processed = Put(@, e.id, CheckEntry(e))]
              IN  IF e.link THEN [d EXCEPT !.pc = "send", !.notes = @ \cup {e.id}]
                  ELSE CheckScan([d EXCEPT !.idx = @ + 1])

\* bot.py 610-612: after the loop the dict is written to processed_events.json
\* in the working directory, which is DATA_DIR unless DATA_DIR is set (bot.py 32)
CheckGoesOn(c) ==
    /\ check' = CheckScan(c)
    /\ processed_file' = IF check'.pc = "report" THEN Dump(check'.processed)
                         ELSE processed_file

checkFrame == <<tokens, USER_ID, mem, known_file, started_file, pc, queue, events, now,
                idx, env, sent, outcome, failed, pre, clean, reminded, shadow, resetSeen,
                redundant, tracked>>

\* bot.py 550-564: /check from a user with a token file
CheckBegins(u) ==
    /\ AtAwait
    /\ check.pc = "idle"
    /\ u \in tokens
    /\ check' = [NoCheck EXCEPT !.pc = "fetch", !.user = u]
    /\ UNCHANGED <<checkFrame, processed_file, hist>>

\* bot.py 566-608: the fetch returns; processed_events.json is loaded
CheckFetchReturns ==
    /\ AtAwait
    /\ check.pc = "fetch"
    /\ \E l \in CheckListings(calendar[check.user], clock) :
         CheckGoesOn([check EXCEPT
                        !.events = [i \in 1..Len(l) |-> Event(calendar[check.user], l[i])],
                        !.processed = Load(processed_file)])
    /\ UNCHANGED <<checkFrame, hist>>

\* bot.py 619-621: the fetch or an answer raises; the except answers with the error
CheckRaises ==
    /\ AtAwait
    /\ check.pc \in {"fetch", "send"}
    /\ check' = NoCheck
    /\ UNCHANGED <<checkFrame, processed_file, hist>>

\* bot.py 606-608: the answer for a new event returned
CheckSendReturns ==
    /\ AtAwait
    /\ check.pc = "send"
    /\ CheckGoesOn([check EXCEPT !.idx = @ + 1])
    /\ UNCHANGED <<checkFrame, hist>>

\* bot.py 614-617: the number of new meetings has been reported
CheckReports ==
    /\ AtAwait
    /\ check.pc = "report"
    /\ check' = NoCheck
    /\ hist' = [hist EXCEPT !.told = [events |-> check.events, new |-> check.fresh]]
    /\ UNCHANGED <<checkFrame, processed_file>>

(* ----------------------- check_week_meetings: /week -------------------- *)

\* bot.py 77-87: the Monday of the current week, or the next Monday on a
\* Saturday or a Sunday; w = the weekday of the day of minute 0
WeekStart(t, w) ==
    LET current_weekday == (w + t \div DAY_MINUTES) % 7 IN
    IF current_weekday >= 5 THEN Today(t) + (7 - current_weekday) * DAY_MINUTES
    ELSE Today(t) - current_weekday * DAY_MINUTES

\* bot.py 89-94: events().list(timeMin=week_start, timeMax=week_start + 7 days),
\* ordered by start time
WeekListings(cal, t, w) ==
    LET ids == {id \in DOMAIN cal : /\ cal[id].end > WeekStart(t, w)
                                    /\ cal[id].start < WeekStart(t, w) + WEEK_MINUTES}
        n   == Cardinality(ids)
    IN  {l \in [1..n -> ids] :
           /\ \A i, j \in 1..n : i < j => l[i] # l[j] /\ cal[l[i]].start <= cal[l[j]].start}

\* what /week has answered: progress = "Проверяю ваши встречи на неделю...",
\* none = "У вас нет предстоящих встреч на неделю.", days = the days for which
\* it has sent a list of meetings, error = the answer of the except of 142-144
NoAnswer == [progress |-> FALSE, none |-> FALSE, days |-> {}, error |-> FALSE]

\* bot.py 96-140 on the fetched events evs at time t.  A date-time without an
\* offset is parsed to a naive datetime and `end_dt > now` raises TypeError
\* (101); an event with a link and no 'summary' raises KeyError when its day is
\* written (133), after the messages of the days before it
WeekAnswers(evs, t) ==
    LET active_events == {i \in 1..Len(evs) : evs[i].end > t}
        day(i)        == evs[i].start \div DAY_MINUTES
        days          == {day(i) : i \in active_events}
        listed(d)     == {i \in active_events : day(i) = d /\ evs[i].link}
        raising       == {d \in days : \E i \in listed(d) : evs[i].shape = "untitled"}
    IN  IF \E i \in 1..Len(evs) : evs[i].shape = "naive"
        THEN [NoAnswer EXCEPT !.progress = TRUE, !.error = TRUE]
        ELSE IF active_events = {}
        THEN [NoAnswer EXCEPT !.progress = TRUE, !.none = TRUE]
        ELSE [NoAnswer EXCEPT
                !.progress = TRUE,
                !.days = {d \in days : /\ listed(d) # {}
                                       /\ \A r \in raising : d < r},
                !.error = (raising # {})]

\* bot.py 60-144: /week from user u; fetched = get_upcoming_events returns
check_week_meetings(u) ==
    /\ AtAwait
    /\ \E w \in 0..6, fetched \in BOOLEAN :
       \E l \in WeekListings(calendar[u], clock, w) :
         LET evs == [i \in 1..Len(l) |-> Event(calendar[u], l[i])] IN
         call' = [op |-> "week", user |-> u, key |-> "",
                  value |-> <<[fetched |-> fetched /\ u \in tokens,
                               events |-> IF fetched /\ u \in tokens THEN evs ELSE <<>>]>>,
                  ret |-> <<IF u \notin tokens THEN NoAnswer
                            ELSE IF ~fetched
                            THEN [NoAnswer EXCEPT !.progress = TRUE, !.error = TRUE]
                            ELSE WeekAnswers(evs, clock)>>,
                  seq |-> 1 - call.seq]
    /\ UNCHANGED <<prog, clock, calendar, restarts, db, added, parse, obs>>

(* ------------------- google_calendar.py: the source -------------------- *)

\* the token data that a caller saves
TokenData == {"token", "refreshed"}

\* a variant of the statement of database.py 209-214 without the COALESCE: the
\* replaced row takes the time of the call as its created_at
TokenSavedFresh(d, u, token_data, t) ==
    Put(d, u, [token_data |-> token_data, created_at |-> t, updated_at |-> t])

\* database.py 204-217: the tokens table d after save_token(u, token_data) at
\* time t.  INSERT OR REPLACE puts the new row in the place of the user's row
\* (user_id TEXT PRIMARY KEY); created_at is COALESCE((SELECT created_at FROM
\* tokens WHERE user_id = ?), now), updated_at is now
TokenSaved(d, u, token_data, t) ==
    Put(d, u, [token_data |-> token_data,
               created_at |-> IF u \in DOMAIN d THEN d[u].created_at ELSE t,
               updated_at |-> t])

\* hist.saved[u] after a save of the user's token at time t
SaveSeen(h, token_data, t) ==
    IF h = <<>> THEN <<[first |-> t, last |-> token_data]>>
    ELSE <<[first |-> h[1].first, last |-> token_data]>>

\* the observation that a step of the store leaves alone
storeObs == <<sent, outcome, failed, pre, clean, reminded, shadow, resetSeen, redundant,
              tracked>>

\* what Credentials.from_authorized_user_info makes of a user's token row:
\* "valid"; "refreshable" = expired, with a refresh_token; "expired" = expired,
\* without one; "unusable" = neither valid nor expired (it has no access token)
CredStates == {"valid", "refreshable", "expired", "unusable"}

\* google_calendar.py 25-45; db = the caller passed a store, refresh = the
\* refresh request succeeds.  The result is [raises, creds]: creds = "none" is
\* the return value None
get_credentials(u, db_given, cred, refresh) ==
    IF u # None /\ ~db_given
    THEN [raises |-> "AttributeError", creds |-> "none"]
    ELSE LET creds == IF u # None /\ u \in DOMAIN db["tokens"] THEN cred ELSE "none" IN
         IF creds = "valid"
         THEN [raises |-> "", creds |-> "valid"]
         ELSE IF creds = "refreshable"
         THEN IF refresh THEN [raises |-> "", creds |-> "valid"]
                         ELSE [raises |-> "RefreshError", creds |-> "none"]
         ELSE [raises |-> "", creds |-> "none"]

\* google_calendar.py 123-178; provider = the calls of the API succeed, l = the
\* items the API lists.  The result is [raises, events]
get_upcoming_events(u, db_given, cred, refresh, provider, l) ==
    LET c == get_credentials(u, db_given, cred, refresh) IN
    IF c.raises # ""
    THEN [raises |-> c.raises, events |-> <<>>]
    ELSE IF c.creds = "none"
    THEN [raises |-> "", events |-> <<>>]
    ELSE IF ~provider
    THEN [raises |-> "HttpError", events |-> <<>>]
    ELSE [raises |-> "", events |-> l]

\* a call of get_upcoming_events for the calendar of owner, with user_id = u
\* (None = not passed) and with or without db
GetUpcomingEvents(owner, u) ==
    /\ pc = "sleep"
    /\ \E db_given, refresh, provider \in BOOLEAN, cred \in CredStates :
       \E l \in Listings(calendar[owner], clock) :
         /\ call' = [op |-> "get_upcoming_events", user |-> u, key |-> cred,
                     value |-> <<[db |-> db_given, refresh |-> refresh,
                                  provider |-> provider,
                                  row |-> (u \in DOMAIN db["tokens"])]>>,
                     ret |-> <<get_upcoming_events(u, db_given, cred, refresh,
                                                   provider, l)>>,
                     seq |-> 1 - call.seq]
         \* 37-40: the refreshed credentials are saved
         /\ IF /\ u # None /\ db_given /\ u \in DOMAIN db["tokens"]
               /\ cred = "refreshable" /\ refresh
            THEN /\ db' = [db EXCEPT !["tokens"] = TokenSaved(@, u, "refreshed", clock)]
                 /\ hist' = [hist EXCEPT !.saved[u] = SaveSeen(@, "refreshed", clock)]
            ELSE UNCHANGED <<db, hist>>
    /\ UNCHANGED <<prog, clock, calendar, restarts, added, parse, storeObs>>

(* ---------------- google_calendar.py: the authorisation ---------------- *)

\* database.py 158-166: the row that save_auth_state writes at time t
AuthState(t) == [flow_state |-> "flow", redirect_uri |-> "oob", created_at |-> t]

\* google_calendar.py 47-83; secrets = credentials.json is there and can be read
create_auth_url(u) ==
    /\ \E secrets \in BOOLEAN :
         /\ db' = IF secrets
                  THEN [db EXCEPT !["auth_states"] = Put(@, u, AuthState(clock))]
                  ELSE db
         /\ call' = [op |-> "create_auth_url", user |-> u, key |-> "",
                     value |-> <<[secrets |-> secrets]>>,
                     ret |-> <<IF secrets THEN "auth_url" ELSE "error">>,
                     seq |-> 1 - call.seq]
    /\ UNCHANGED <<prog, clock, calendar, restarts, added, parse, obs>>

\* a variant of google_calendar.py 89-91 that goes on without a stored state
AuthCodeAnySession(d, u, secrets, exchange, t) ==
    IF ~secrets \/ ~exchange
    THEN [ok |-> FALSE, msg |-> "error", db |-> d]
    ELSE [ok |-> TRUE, msg |-> "done",
          db |-> [d EXCEPT !["tokens"] = TokenSaved(@, u, "token", t),
                           !["auth_states"] = Without(@, {u})]]

\* a variant of google_calendar.py 110-116 that keeps the state after a success
AuthCodeKeepsSession(d, u, secrets, exchange, t) ==
    IF u \notin DOMAIN d["auth_states"]
    THEN [ok |-> FALSE, msg |-> "expired", db |-> d]
    ELSE IF ~secrets \/ ~exchange
    THEN [ok |-> FALSE, msg |-> "error", db |-> d]
    ELSE [ok |-> TRUE, msg |-> "done",
          db |-> [d EXCEPT !["tokens"] = TokenSaved(@, u, "token", t)]]

\* google_calendar.py 85-121 over the store d at time t; secrets = the flow can
\* be made from credentials.json (92-97), exchange = flow.fetch_token takes the
\* code (108).  The result is [ok, msg, db]: what the call returns and the
\* store after it
AuthCode(d, u, secrets, exchange, t) ==
    IF u \notin DOMAIN d["auth_states"]
    THEN \* 89-91: get_auth_state gave (None, None)
         [ok |-> FALSE, msg |-> "expired", db |-> d]
    ELSE IF ~secrets \/ ~exchange
    THEN \* 119-121: the exception is caught
         [ok |-> FALSE, msg |-> "error", db |-> d]
    ELSE \* 112-116: save_token, delete_auth_state
         [ok |-> TRUE, msg |-> "done",
          db |-> [d EXCEPT !["tokens"] = TokenSaved(@, u, "token", t),
                           !["auth_states"] = Without(@, {u})]]

\* a call of process_auth_code(user_id, code, db) with any code
process_auth_code(u) ==
    /\ \E secrets, exchange \in BOOLEAN :
         LET r == AuthCode(db, u, secrets, exchange, clock) IN
         /\ db' = r.db
         /\ call' = [op |-> "process_auth_code", user |-> u, key |-> r.msg,
                     value |-> <<[state |-> u \in DOMAIN db["auth_states"],
                                  secrets |-> secrets, exchange |-> exchange]>>,
                     ret |-> <<r.ok>>, seq |-> 1 - call.seq]
         /\ hist' = IF r.ok THEN [hist EXCEPT !.saved[u] = SaveSeen(@, "token", clock)]
                    ELSE hist
    /\ UNCHANGED <<prog, clock, calendar, restarts, added, parse, storeObs>>

\* database.py 185-191: DELETE FROM auth_states WHERE created_at < now - 24 h
clean_old_auth_states ==
    /\ db' = [db EXCEPT !["auth_states"] =
                Without(@, {u \in DOMAIN @ : @[u].created_at < clock - AUTH_KEEP_MINUTES})]
    /\ call' = [op |-> "clean_old_auth_states", user |-> None, key |-> "",
                value |-> <<>>, ret |-> <<>>, seq |-> 1 - call.seq]
    /\ UNCHANGED <<prog, clock, calendar, restarts, added, parse, obs>>

(* ------------------------ database.py: the store ----------------------- *)

\* database.py 38-71: each of the three tables has event_id TEXT PRIMARY KEY, so
\* a table holds at most one row per event_id; INSERT OR REPLACE puts the new row
\* in the place of the row with the same event_id
InsertOrReplace(t, e, u) == [db EXCEPT ![t] = Put(@, e, [user_id |-> u])]

\* database.py 135-147, 273-281: SELECT 1 ... WHERE event_id = ? AND user_id = ?
IsMember(t, e, u) == e \in DOMAIN db[t] /\ db[t][e].user_id = u

Row(t, e, u) == [table |-> t, id |-> e, user |-> u]

\* database.py 118-126
add_known_event(e, u) ==
    /\ db' = InsertOrReplace("known_events", e, u)
    /\ added' = added \cup {Row("known_events", e, u)}
    /\ UNCHANGED <<prog, clock, calendar, restarts, parse, call, obs>>

\* database.py 108-116
add_started_event(e, u) ==
    /\ db' = InsertOrReplace("started_events", e, u)
    /\ added' = added \cup {Row("started_events", e, u)}
    /\ UNCHANGED <<prog, clock, calendar, restarts, parse, call, obs>>

\* database.py 236-248
save_processed_event(e, u) ==
    /\ db' = InsertOrReplace("processed_events", e, u)
    /\ added' = added \cup {Row("processed_events", e, u)}
    /\ UNCHANGED <<prog, clock, calendar, restarts, parse, call, obs>>

\* database.py 306-314: DELETE ... WHERE event_id = ? AND user_id = ?
delete_known_event(e, u) ==
    /\ db' = [db EXCEPT !["known_events"] =
                IF IsMember("known_events", e, u) THEN Without(@, {e}) ELSE @]
    /\ added' = added \ {Row("known_events", e, u)}
    /\ UNCHANGED <<prog, clock, calendar, restarts, parse, call, obs>>

\* database.py 204-217
save_token(u, token_data) ==
    /\ db' = [db EXCEPT !["tokens"] = TokenSaved(@, u, token_data, clock)]
    /\ call' = [op |-> "save_token", user |-> u, key |-> "", value |-> <<token_data>>,
                ret |-> <<>>, seq |-> 1 - call.seq]
    /\ hist' = [hist EXCEPT !.saved[u] = SaveSeen(@, token_data, clock)]
    /\ UNCHANGED <<prog, clock, calendar, restarts, added, parse, storeObs>>

\* database.py 219-227: the token_data of the user's row, or None
get_token(u) ==
    /\ call' = [op |-> "get_token", user |-> u, key |-> "", value |-> <<>>,
                ret |-> <<IF u \in DOMAIN db["tokens"] THEN db["tokens"][u].token_data
                          ELSE None>>,
                seq |-> 1 - call.seq]
    /\ UNCHANGED <<prog, clock, calendar, restarts, db, added, parse, obs>>

\* database.py 229-234: DELETE FROM tokens WHERE user_id = ?
delete_token(u) ==
    /\ db' = [db EXCEPT !["tokens"] = Without(@, {u})]
    /\ call' = [op |-> "delete_token", user |-> u, key |-> "", value |-> <<>>,
                ret |-> <<>>, seq |-> 1 - call.seq]
    /\ hist' = [hist EXCEPT !.saved[u] = <<>>]
    /\ UNCHANGED <<prog, clock, calendar, restarts, added, parse, storeObs>>

\* the statuses of a row of meeting_stats, database.py 91
Statuses == {"upcoming", "completed", "cancelled"}

\* database.py 348-366: INSERT OR REPLACE INTO meeting_stats, event_id TEXT
\* PRIMARY KEY; m = the meeting, for its start_time and end_time
update_meeting_stats(e, u, m, status) ==
    /\ db' = [db EXCEPT !["meeting_stats"] =
                Put(@, e, [user_id |-> u, start_time |-> m.start, end_time |-> m.end,
                           status |-> status, duration_minutes |-> m.end - m.start])]
    /\ UNCHANGED <<prog, clock, calendar, restarts, added, parse, call, obs>>

\* SELECT COUNT(*) FROM meeting_stats WHERE user_id = ? AND status = ?
CountStats(ms, u, status) ==
    Cardinality({e \in DOMAIN ms : ms[e].user_id = u /\ ms[e].status = status})

RECURSIVE SumMinutes(_, _)
\* SELECT SUM(duration_minutes) FROM meeting_stats WHERE user_id = ?, over the
\* rows of the events es
SumMinutes(ms, es) ==
    IF es = {} THEN 0
    ELSE LET e == CHOOSE x \in es : TRUE IN ms[e].duration_minutes + SumMinutes(ms, es \ {e})

\* database.py 368-397: the figures of user u over the rows ms of meeting_stats;
\* total_duration is round(total_minutes / 60, 1), kept in tenths of an hour
\* (the durations of the model are multiples of 6 minutes)
UserStats(ms, u) ==
    [total     |-> Cardinality({e \in DOMAIN ms : ms[e].user_id = u}),
     completed |-> CountStats(ms, u, "completed"),
     cancelled |-> CountStats(ms, u, "cancelled"),
     upcoming  |-> CountStats(ms, u, "upcoming"),
     total_duration |-> SumMinutes(ms, {e \in DOMAIN ms : ms[e].user_id = u}) \div 6]

\* database.py 368-397
get_user_stats(u) ==
    /\ call' = [op |-> "get_user_stats", user |-> u, key |-> "", value |-> <<>>,
                ret |-> <<UserStats(db["meeting_stats"], u)>>, seq |-> 1 - call.seq]
    /\ UNCHANGED <<prog, clock, calendar, restarts, db, added, parse, obs>>

\* database.py 193-202: DELETE FROM auth_states, processed_events,
\* started_events, known_events and tokens, without a WHERE
reset_all ==
    /\ db' = [t \in DOMAIN db |->
                IF t \in Tables \cup {"tokens", "auth_states"} THEN EmptyDict ELSE db[t]]
    /\ added' = {}
    /\ hist' = [hist EXCEPT !.saved = [u \in Users |-> <<>>]]
    /\ UNCHANGED <<prog, clock, calendar, restarts, parse, call, storeObs>>

\* database.py 73-80: the defaults of a row of user_settings
DefaultSettings ==
    [reminder_time |-> REMINDER_DEFAULT, notify_new |-> TRUE, notify_start |-> TRUE,
     notify_cancel |-> TRUE]

\* the columns of user_settings that hold a setting, and the values a caller
\* passes for one: a lead time, allowed or not, or a flag
SettingKeys == {"reminder_time", "notify_new", "notify_start", "notify_cancel"}
SettingValues(k) == IF k = "reminder_time" THEN LeadTimes \cup {7} ELSE BOOLEAN

\* a variant of get_user_settings with INSERT OR REPLACE in the place of INSERT
\* OR IGNORE
get_user_settings_replace(u) ==
    /\ AtAwait
    /\ db' = [db EXCEPT !["user_settings"] = Put(@, u, DefaultSettings)]
    /\ call' = [op |-> "get_user_settings", user |-> u, key |-> "", value |-> <<>>,
                ret |-> <<db'["user_settings"][u]>>, seq |-> 1 - call.seq]
    /\ UNCHANGED <<prog, clock, calendar, restarts, added, parse, obs>>

\* database.py 316-336: INSERT OR IGNORE of the user's row, user_id TEXT PRIMARY
\* KEY; the row is selected and returned
get_user_settings(u) ==
    /\ AtAwait
    /\ db' = IF u \in DOMAIN db["user_settings"]
             THEN db
             ELSE [db EXCEPT !["user_settings"] = Put(@, u, DefaultSettings)]
    /\ call' = [op |-> "get_user_settings", user |-> u, key |-> "", value |-> <<>>,
                ret |-> <<db'["user_settings"][u]>>, seq |-> 1 - call.seq]
    /\ UNCHANGED <<prog, clock, calendar, restarts, added, parse, obs>>

\* database.py 338-346: UPDATE user_settings SET <setting> = ? WHERE user_id = ?
\* (no row of the user: no row is updated)
update_user_setting(u, setting, value) ==
    /\ AtAwait
    /\ db' = IF u \in DOMAIN db["user_settings"]
             THEN [db EXCEPT !["user_settings"][u][setting] = value]
             ELSE db
    /\ call' = [op |-> "update_user_setting", user |-> u, key |-> setting,
                value |-> <<value>>, ret |-> <<>>, seq |-> 1 - call.seq]
    /\ UNCHANGED <<prog, clock, calendar, restarts, added, parse, obs>>

(* --------------------------- the specifications ------------------------ *)

\* the steps of scheduled_meetings_check
Poll ==
    \/ ListTokens
    \/ FetchReturns
    \/ FetchRaises
    \/ Discover
    \/ SendNewReturns
    \/ SendNewRaises
    \/ Remind
    \/ SendReminderReturns
    \/ SendReminderRaises
    \/ Started
    \/ SendStartedReturns
    \/ SendStartedRaises
    \/ CleanUp

\* one user with a calendar of up to MaxEvents meetings
Next ==
    \/ Poll
    \/ SetToken("u1")
    \/ Tick
    \/ CalendarChange("u1", EventIds)

Spec == InitSolo /\ [][Next]_vars

\* two users, each with a calendar that holds the shared meeting e1 or nothing
NextUsers ==
    \/ Poll
    \/ \E u \in Users : SetToken(u)
    \/ Tick
    \/ \E u \in Users : CalendarChange(u, {"e1"})

SpecUsers == Init /\ [][NextUsers]_vars

\* one user with the meeting e1; /reset and restarts of the process
NextRestart ==
    \/ Poll
    \/ SetToken("u1")
    \/ Tick
    \/ CalendarChange("u1", {"e1"})
    \/ Reset
    \/ Restart

SpecRestart == InitSolo /\ [][NextRestart]_vars

\* the operations of the store on the per-event tables
NextStore ==
    \/ \E e \in EventIds, u \in Users : add_known_event(e, u)
    \/ \E e \in EventIds, u \in Users : add_started_event(e, u)
    \/ \E e \in EventIds, u \in Users : save_processed_event(e, u)
    \/ \E e \in EventIds, u \in Users : delete_known_event(e, u)

SpecStore == InitSolo /\ [][NextStore]_vars

\* the store with rows of two users in every table, and reset_all
NextReset ==
    \/ \E u \in Users : save_token(u, "token")
    \/ \E u \in Users : add_known_event("e1", u)
    \/ \E e \in EventIds, u \in Users :
         \E m \in MeetingsOf("e2") : update_meeting_stats(e, u, m, "upcoming")
    \/ \E u \in Users : get_user_settings(u)
    \/ reset_all

SpecReset == InitSolo /\ [][NextReset]_vars

\* the statistics of two users over the meetings e1 and e2
NextStats ==
    \/ \E e \in EventIds, u \in Users, status \in Statuses :
         \E m \in MeetingsOf(e) : update_meeting_stats(e, u, m, status)
    \/ \E u \in Users : get_user_stats(u)

SpecStats == InitSolo /\ [][NextStats]_vars

\* the settings of two users: reads and updates of every key
NextSettingsStore ==
    \/ \E u \in Users : get_user_settings(u)
    \/ \E u \in Users, k \in SettingKeys :
         \E v \in SettingValues(k) : update_user_setting(u, k, v)

SpecSettingsStore == InitSolo /\ [][NextSettingsStore]_vars

\* the calendar source, called for the calendar of u1 with and without user_id
NextSource ==
    \/ \E u \in {"u1", None} : GetUpcomingEvents("u1", u)
    \/ save_token("u1", "token")
    \/ CalendarChange("u1", {"e1"})
    \/ Tick

SpecSource == InitSolo /\ [][NextSource]_vars

\* one user with the meeting e1, and the user's row of settings
NextSettings ==
    \/ Poll
    \/ SetToken("u1")
    \/ Tick
    \/ CalendarChange("u1", {"e1"})
    \/ get_user_settings("u1")
    \/ \E v \in BOOLEAN : update_user_setting("u1", "notify_new", v)
    \/ \E v \in LeadTimes : update_user_setting("u1", "reminder_time", v)

SpecSettings == InitSolo /\ [][NextSettings]_vars

\* one user whose calendar holds e2, with or without a link; /check
NextCheck ==
    \/ Poll
    \/ SetToken("u1")
    \/ Tick
    \/ CalendarChange("u1", {"e2"})
    \/ CheckBegins("u1")
    \/ CheckFetchReturns
    \/ CheckRaises
    \/ CheckSendReturns
    \/ CheckReports

SpecCheck == InitSolo /\ [][NextCheck]_vars

\* one user with the meeting e1; every await of the loop ends, by a return or
\* by an exception, and asyncio.sleep returns
Loop == Poll \/ ListTokensRaises

NextLive ==
    \/ Loop
    \/ SetToken("u1")
    \/ Tick
    \/ CalendarChange("u1", {"e1"})

SpecLive == InitSolo /\ [][NextLive]_vars /\ WF_vars(Loop)

\* the owner's change leaves both meetings in the calendar, e2 before e1
CalendarBoth(u) ==
    /\ CalendarChange(u, EventIds)
    /\ DOMAIN calendar'[u] = EventIds
    /\ calendar'[u]["e1"].start > calendar'[u]["e2"].start

\* one user whose calendar holds both meetings, e2 before e1; the provider may
\* write e2 in any shape
NextMalformed ==
    \/ Poll
    \/ PassRaises
    \/ SetToken("u1")
    \/ Tick
    \/ CalendarBoth("u1")
    \/ \E shape \in Shapes : Malform("u1", "e2", shape)

SpecMalformed == InitSolo /\ [][NextMalformed]_vars

\* one user whose calendar holds e2; /check, and the process may start again
NextCheckRestart ==
    \/ Poll
    \/ SetToken("u1")
    \/ Tick
    \/ CalendarChange("u1", {"e2"})
    \/ CheckBegins("u1")
    \/ CheckFetchReturns
    \/ CheckRaises
    \/ CheckSendReturns
    \/ CheckReports
    \/ Restart

SpecCheckRestart == InitSolo /\ [][NextCheckRestart]_vars

\* one user who has sent /settoken before the loop's first cycle, so that every
\* notification of the loop has a target; the user's calendar holds e1
InitOwner == InitSolo /\ tokens = {"u1"} /\ USER_ID = "u1"

NextOwner ==
    \/ Poll
    \/ Tick
    \/ CalendarChange("u1", {"e1"})

SpecOwner == InitOwner /\ [][NextOwner]_vars

\* the same user, whose calendar holds both meetings, e2 before e1; /check
NextCheckBoth ==
    \/ Poll
    \/ Tick
    \/ CalendarBoth("u1")
    \/ CheckBegins("u1")
    \/ CheckFetchReturns
    \/ CheckRaises
    \/ CheckSendReturns
    \/ CheckReports

SpecCheckBoth == InitOwner /\ [][NextCheckBoth]_vars

\* the tokens of two users are saved, read and deleted as time passes
NextTokens ==
    \/ \E u \in Users, token_data \in TokenData : save_token(u, token_data)
    \/ \E u \in Users : get_token(u)
    \/ \E u \in Users : delete_token(u)
    \/ Tick

SpecTokens == InitSolo /\ [][NextTokens]_vars

\* two users ask for an authorisation URL and send codes, good and bad, as time
\* passes; old authorisation states are cleaned
NextAuth ==
    \/ \E u \in Users : create_auth_url(u)
    \/ \E u \in Users : process_auth_code(u)
    \/ clean_old_auth_states
    \/ Tick

SpecAuth == InitSolo /\ [][NextAuth]_vars

\* two users send /settoken with texts of every kind as time passes
NextSetToken ==
    \/ \E u \in Users, text \in TokenTexts : set_token_command(u, text)
    \/ Tick

SpecSetToken == InitSolo /\ [][NextSetToken]_vars

\* one user with a calendar of up to MaxEvents meetings sends /week
NextWeek ==
    \/ SetToken("u1")
    \/ Tick
    \/ CalendarChange("u1", EventIds)
    \/ check_week_meetings("u1")

SpecWeek == InitSolo /\ [][NextWeek]_vars

\* safe_parse_datetime is called with any text, at any time
InitParse == Boot /\ tokens = {} /\ USER_ID = None /\ date_str \in DateStrings /\ parsed = <<>>

NextParse ==
    \/ Parse
    \/ Tick

SpecParse == InitParse /\ [][NextParse]_vars

(* ------------------------------- properties ---------------------------- *)

\* the loop is inside a user's pass, between the fetch and the end of the pass
PassPcs == {"discover", "send_new", "remind", "send_reminder", "started", "send_started",
            "raise_discover", "raise_evaluate"}

\* the first for-loop of the pass has run to its end
DiscoveryDone == pc \in {"remind", "send_reminder", "started", "send_started"}

NotedIds(kind) == {n.id : n \in {m \in sent : m.kind = kind}}

\* C1: a pass over the same events at the same `now` as the user's last pass,
\* which ran to completion, emits no notification of any kind.  (clean[u] says
\* that u's last pass ran to completion and that neither the clock nor u's
\* calendar has changed since its fetch.)
C1_Idempotent == (pc \in PassPcs /\ clean[user]) => sent = {}

C3_Cancelled ==
    outcome = "completed" =>
        \A id \in pre.known \ (Ids(events) \cup DOMAIN calendar["u1"]) :
            /\ id \notin DOMAIN known_events
            /\ \E n \in sent : n.kind = "MeetingCancelled" /\ n.id = id


\* C4: the step in which a user's fetch raises leaves known_events,
\* processed_events, started_events and their files as they were, emits nothing,
\* and hands the loop to the next user of the cycle, whose fetch comes next
C4_FetchFailure ==
    [][(pc = "fetch" /\ outcome' = "fetch_failed" /\ queue' # queue) =>
          /\ UNCHANGED <<mem, files>>
          /\ sent' = {}
          /\ queue' = Tail(queue)
          /\ (Tail(queue) # <<>> => pc' = "fetch")]_vars

\* the fetch of the first of two users has raised while the dicts hold an entry,
\* and the loop is at the fetch of the second user
C4_Witness ==
    /\ outcome = "fetch_failed" /\ pc = "fetch" /\ Len(queue) = 1
    /\ Cardinality(tokens) = 2
    /\ DOMAIN known_events # {}
    /\ sent = {}

Evaluated ==
    IF outcome = "completed" THEN 1..Len(events)
    ELSE IF outcome = "running" /\ DiscoveryDone THEN 1..(idx - 1)
    ELSE {}

\* a joinable event that starts exactly at `now`, seen by a pass with a chat to
\* write to
Boundary(i) ==
    /\ events[i].link
    /\ events[i].start = now /\ now < events[i].end
    /\ pre.target # None

\* C6 as stated: for a boundary event that was not in started_events the pass
\* emits MeetingStarted and no UpcomingReminder
C6_Boundary ==
    \A i \in Evaluated :
        (Boundary(i) /\ events[i].id \notin pre.started) =>
            /\ events[i].id \in NotedIds("MeetingStarted")
            /\ events[i].id \notin NotedIds("UpcomingReminder")

\* C6: for a boundary event the pass emits MeetingStarted unless the event was in
\* started_events, and emits UpcomingReminder as well unless the event was in
\* processed_events: the window of the reminder is closed at the start.  If the
\* send of that reminder raises, the pass ends with no MeetingStarted for it.
C6_BoundaryBoth ==
    /\ \A i \in Evaluated :
          Boundary(i) =>
            /\ events[i].id \notin pre.started => events[i].id \in NotedIds("MeetingStarted")
            /\ events[i].id \in NotedIds("UpcomingReminder") <=> events[i].id \notin pre.processed
    /\ (outcome = "aborted" /\ failed.kind = "UpcomingReminder") =>
          failed.id \notin NotedIds("MeetingStarted")

\* a completed pass over a boundary event that was in neither dict: it has
\* emitted both the reminder and the start message
C6_Witness ==
    /\ outcome = "completed"
    /\ \E i \in 1..Len(events) :
         /\ Boundary(i)
         /\ events[i].id \notin pre.started \cup pre.processed
         /\ events[i].id \in NotedIds("MeetingStarted") \cap NotedIds("UpcomingReminder")

\* C7: every row written for (table, event, user) and not deleted since is still
\* answered as present by the membership query for (event, user)
C7_Partition == \A r \in added : IsMember(r.table, r.id, r.user)

\* C8: every notification of a pass goes to the owner of the calendar that the
\* pass reconciles, and a pass emits NewMeeting for each listed joinable event
\* that has not started and that no pass of the same user has listed before,
\* whatever the passes of other users have recorded
C8_Isolation ==
    /\ \A n \in sent : n.to # None => n.to = n.owner
    /\ (outcome = "running" /\ DiscoveryDone) =>
          \A i \in 1..Len(events) :
              (events[i].link /\ events[i].start > now /\ events[i].id \notin tracked[user])
                  => events[i].id \in NotedIds("NewMeeting")

\* C9: when the send of a notification has raised, the dict of that kind of
\* notification holds the event all the same
C9_NoRollback ==
    outcome = "aborted" =>
        /\ failed.kind = "NewMeeting" => failed.id \in DOMAIN known_events
        /\ failed.kind = "UpcomingReminder" => failed.id \in DOMAIN processed_events
        /\ failed.kind = "MeetingStarted" => failed.id \in DOMAIN started_events

\* C10: as long as nobody has sent /reset, the loop emits no notification for an
\* event whose entry a loop that had never been restarted would still hold
C10_Durable == ~resetSeen => redundant = {}

\* C11: an event that the last completed pass did not list, because it was
\* taken off the calendar, and that is listed again is not in known_events when
\* the pass that lists it begins: it is discovered afresh
C11_Reappearance ==
    outcome = "running" =>
        \A i \in 1..Len(events) :
            events[i].id \in hist.missed => events[i].id \notin pre.known

\* the listed events that were not in known_events when the pass began and whose
\* start is not after `now`
SeenStale == {i \in 1..Len(events) : events[i].start <= now /\ events[i].id \notin pre.known}

\* C12 as stated: an event first listed when its start is not after `now` is
\* recorded in known_events without a NewMeeting, and no later pass emits a
\* NewMeeting for it
C12_NoStaleNew ==
    /\ DiscoveryDone =>
          \A i \in SeenStale :
              /\ events[i].id \in DOMAIN known_events
              /\ events[i].id \notin NotedIds("NewMeeting")
    /\ \A n \in sent : n.kind = "NewMeeting" =>
          \A s \in hist.stale : s[1] # n.id

\* C12: an event first listed when its start is not after `now` is recorded in
\* known_events without a NewMeeting, and a later pass emits a NewMeeting for it
\* only when more than a day has passed since the end recorded with it (the
\* clean-up has dropped its entry and the event has been moved to the future)
C12_StaleWhileKept ==
    /\ DiscoveryDone =>
          \A i \in SeenStale :
              /\ events[i].id \in DOMAIN known_events
              /\ events[i].id \notin NotedIds("NewMeeting")
    /\ \A n \in sent : n.kind = "NewMeeting" =>
          \A s \in hist.stale : s[1] = n.id => now > s[2] + KNOWN_KEEP_MINUTES

\* a later pass lists, joinable and with its start moved after `now`, an event
\* that was recorded when it had started, and has passed it without a NewMeeting
C12_Witness ==
    /\ DiscoveryDone
    /\ \E i \in 1..Len(events) :
         /\ events[i].link /\ events[i].start > now
         /\ \E s \in hist.stale : s[1] = events[i].id /\ now <= s[2] + KNOWN_KEEP_MINUTES
         /\ events[i].id \in pre.known
         /\ events[i].id \notin NotedIds("NewMeeting")

\* the user's row of user_settings, or the defaults when there is none yet
SettingsOf(u) ==
    IF u \in DOMAIN db["user_settings"] THEN db["user_settings"][u] ELSE DefaultSettings

\* the kinds of the notifications that a step hands to bot.send_message
Emitted == {n.kind : n \in sent' \ sent}

\* C13: a step of the discovery loop taken while the user's notify_new is false
\* emits no NewMeeting, and records the event it meets in known_events
C13_NewGated ==
    [][(pc = "discover" /\ idx <= Len(events) /\ ~SettingsOf(user).notify_new) =>
          /\ "NewMeeting" \notin Emitted
          /\ events[idx].id \in DOMAIN known_events']_vars

\* C15: a step of the reminder loop that meets a joinable event with no reminder
\* on record emits an UpcomingReminder exactly when the time to the start is
\* between 0 and the user's reminder_time
C15_LeadTime ==
    [][(/\ pc = "remind" /\ idx <= Len(events)
        /\ events[idx].link
        /\ USER_ID # None
        /\ events[idx].id \notin DOMAIN processed_events) =>
          ("UpcomingReminder" \in Emitted <=>
              /\ 0 <= events[idx].start - now
              /\ events[idx].start - now <= SettingsOf(user).reminder_time)]_vars

\* C14: a pass emits MeetingStarted only for a listed event with
\* start <= now < end and only if no earlier pass has emitted one for the event;
\* and the pass that meets a joinable event with start <= now < end leaves it in
\* started_events, also when the send has raised
C14_StartedOnce ==
    /\ \A n \in sent : (outcome = "running" /\ n.kind = "MeetingStarted") =>
          /\ n.id \notin hist.begun
          /\ \E i \in 1..Len(events) :
                events[i].id = n.id /\ events[i].start <= now /\ now < events[i].end
    /\ \A i \in Evaluated :
          (events[i].link /\ events[i].start <= now /\ now < events[i].end)
              => events[i].id \in DOMAIN started_events
    /\ (outcome = "aborted" /\ failed.kind = "MeetingStarted")
          => failed.id \in DOMAIN started_events

\* C16: every notification of the poll loop and every message of /check is for
\* a listed event that has a join link, and the number of new meetings that
\* /check reports counts only the events for which it has shown a message
C16_NoLinkNoNote ==
    /\ \A n \in sent : \E i \in 1..Len(events) : events[i].id = n.id /\ events[i].link
    /\ \A id \in check.notes :
          \E i \in 1..Len(check.events) : check.events[i].id = id /\ check.events[i].link
    /\ check.pc = "report" => check.count = Cardinality(check.notes)

\* C17: the clean-up that ends a cycle drops from known_events exactly the
\* entries whose end is more than a day before the clock, leaves the other
\* entries as they were, and hands nothing to bot.send_message
C17_Retention ==
    [][(pc = "gc" /\ pc' = "sleep") =>
          /\ DOMAIN known_events' =
                {id \in DOMAIN known_events :
                   ~(clock > known_events[id]["end_time"] + KNOWN_KEEP_MINUTES)}
          /\ \A id \in DOMAIN known_events' : known_events'[id] = known_events[id]
          /\ sent' \subseteq sent]_vars

\* the loop sleeps after a clean-up that has dropped the entry of an event
\* recorded more than a day before and has kept the entry of another event
C17_Witness ==
    /\ pc = "sleep" /\ outcome = "none"
    /\ \E s \in hist.stale :
         s[1] \notin DOMAIN known_events /\ clock > s[2] + KNOWN_KEEP_MINUTES
    /\ \E id \in DOMAIN known_events :
         clock <= known_events[id]["end_time"] + KNOWN_KEEP_MINUTES

\* C18: whatever raises in a cycle, the loop reaches its sleep again and again,
\* and again and again a cycle begins
C18_NeverStops ==
    /\ []<>(pc = "sleep")
    /\ []<><<ListTokens \/ ListTokensRaises>>_vars

\* the send of a start message has raised and the cycle goes on to its clean-up
C18_Witness ==
    /\ pc = "gc"
    /\ outcome = "aborted" /\ failed.kind = "MeetingStarted"
\* C19: when a record of the fetched list made the user's pass raise, every
\* well-formed event of the list has still been evaluated in that pass: it is in
\* known_events, it has its reminder on record if its start is within the
\* reminder window, and it has its started note on record if it is running
C19_OthersEvaluated ==
    (pc = "gc" /\ outcome = "aborted" /\ failed.kind \in {"Discovery", "Evaluation"}) =>
        \A i \in 1..Len(events) :
            LET e == events[i] IN
            e.shape = "ok" =>
                /\ e.id \in DOMAIN known_events
                /\ (e.link /\ 0 <= e.start - now /\ e.start - now <= REMINDER_MINUTES)
                      => e.id \in DOMAIN processed_events
                /\ (e.link /\ e.start <= now /\ now < e.end)
                      => e.id \in DOMAIN started_events

\* C20: a call of safe_parse_datetime returns, it does not raise, and what it
\* returns is a timezone-aware datetime, whatever the text
C20_Aware ==
    parsed # <<>> => (parsed[1].raises = "" /\ parsed[1].tz # <<>>)

\* C21: a pass of the first cycle that began after a /reset finds no entry in
\* known_events, processed_events or started_events when it begins
C21_ResetTakesEffect ==
    (hist.reset = "cycle" /\ pc \in PassPcs) =>
        (pre.known = {} /\ pre.processed = {} /\ pre.started = {})

\* the user a row of the store belongs to
OwnerOf(t, k) ==
    IF t \in {"tokens", "user_settings", "auth_states"} THEN k ELSE db[t][k].user_id

\* C22: a reset is the reset of one user a: it leaves every row of every other
\* user in every table as it was, and it leaves no row of a in the per-event
\* tables and in meeting_stats
C22_ResetScoped ==
    [][(db' # db /\ \E t \in StoreTables : DOMAIN db[t] \ DOMAIN db'[t] # {}) =>
          \E a \in Users :
              /\ \A t \in StoreTables : \A k \in DOMAIN db[t] :
                    OwnerOf(t, k) # a => (k \in DOMAIN db'[t] /\ db'[t][k] = db[t][k])
              /\ \A t \in Tables \cup {"meeting_stats"} : \A k \in DOMAIN db'[t] :
                    db'[t][k].user_id # a]_vars

\* C23: a call of get_upcoming_events that cannot obtain the events (there is
\* no usable credential, the refresh fails, or the API call fails) ends with an
\* exception: its outcome is not the outcome of a fetch that lists no event
C23_FailureDistinct ==
    call.op = "get_upcoming_events" =>
        LET in  == call.value[1]
            out == call.ret[1]
            usable == /\ call.user # None /\ in.db /\ in.row
                      /\ \/ call.key = "valid"
                         \/ call.key = "refreshable" /\ in.refresh
        IN  (~usable \/ ~in.provider) => out # [raises |-> "", events |-> <<>>]

\* C24: a call of get_user_settings(u) leaves user_settings with one row of u
\* and with the rows it had, unchanged; the row of a user that had none holds
\* reminder_time 15 and the three flags true; the call returns the row of u
C24_LazyDefaults ==
    [][(call'.seq # call.seq /\ call'.op = "get_user_settings") =>
          LET u   == call'.user
              old == db["user_settings"]
              new == db'["user_settings"]
          IN  /\ DOMAIN new = DOMAIN old \cup {u}
              /\ \A w \in DOMAIN old : new[w] = old[w]
              /\ u \notin DOMAIN old =>
                    new[u] = [reminder_time |-> 15, notify_new |-> TRUE,
                              notify_start |-> TRUE, notify_cancel |-> TRUE]
              /\ call'.ret = <<new[u]>>]_vars

\* get_user_settings has returned a row that update_user_setting had changed
C24_Witness ==
    /\ call.op = "get_user_settings"
    /\ call.ret[1].reminder_time = 30
    /\ ~call.ret[1].notify_cancel
    /\ call.ret[1] = db["user_settings"][call.user]

\* C25: a call of update_user_setting(u, k, v) leaves every other key of u and
\* every row of another user as they were, and the call of get_user_settings(u)
\* that follows it returns v for k
C25_RoundTrip ==
    [][/\ (call'.seq # call.seq /\ call'.op = "update_user_setting") =>
             \A w \in DOMAIN db["user_settings"] : \A k \in SettingKeys :
                 (w # call'.user \/ k # call'.key) =>
                     /\ w \in DOMAIN db'["user_settings"]
                     /\ db'["user_settings"][w][k] = db["user_settings"][w][k]
       /\ (/\ call.op = "update_user_setting"
           /\ call'.seq # call.seq /\ call'.op = "get_user_settings"
           /\ call'.user = call.user) =>
             call'.ret[1][call.key] = call.value[1]]_vars

\* C26: the reminder_time of every row of user_settings is an allowed lead time
C26_LeadTimeAllowed ==
    \A u \in DOMAIN db["user_settings"] :
        db["user_settings"][u].reminder_time \in LeadTimes

\* C27: the figures that get_user_stats returns add up, total = completed +
\* cancelled + upcoming, and a step that writes a row of meeting_stats for a
\* user leaves the figures of every other user as they were
C27_StatsPerUser ==
    [][/\ (call'.seq # call.seq /\ call'.op = "get_user_stats") =>
             LET f == call'.ret[1] IN f.total = f.completed + f.cancelled + f.upcoming
       /\ \A e \in DOMAIN db'["meeting_stats"] :
             (e \notin DOMAIN db["meeting_stats"]
                \/ db'["meeting_stats"][e] # db["meeting_stats"][e]) =>
                 \A a \in Users \ {db'["meeting_stats"][e].user_id} :
                     UserStats(db'["meeting_stats"], a) = UserStats(db["meeting_stats"], a)]_vars

\* C28: while the poll loop is inside the pass of a user, at its fetch or past
\* it, no /check of that user is in flight
C28_Serialized ==
    ~(/\ check.pc # "idle"
      /\ pc \in PassPcs \cup {"fetch"}
      /\ check.user = user)

\* C29: within a pass, the step that emits NewMeeting for an event finds no
\* notification of the event among those of the pass; the step that emits
\* UpcomingReminder finds at most its NewMeeting; the step that emits
\* MeetingStarted finds at most its NewMeeting and its UpcomingReminder
C29_Order ==
    [][/\ (pc # "send_new" /\ pc' = "send_new") =>
             \A n \in sent : n.id # events[idx].id
       /\ (pc # "send_reminder" /\ pc' = "send_reminder") =>
             \A n \in sent : n.id = events[idx].id => n.kind = "NewMeeting"
       /\ (pc # "send_started" /\ pc' = "send_started") =>
             \A n \in sent : n.id = events[idx].id =>
                 n.kind \in {"NewMeeting", "UpcomingReminder"}]_vars

\* a pass is emitting UpcomingReminder for an event for which it has emitted
\* NewMeeting
C29_Witness ==
    /\ pc = "send_reminder"
    /\ events[idx].id \in NotedIds("NewMeeting") \cap NotedIds("UpcomingReminder")

\* C30: the clean-up that ends a cycle leaves in started_events no entry of a
\* meeting of the cycle's list that had ended when the clean-up read the clock
C30_StartedCleaned ==
    [][(pc = "gc" /\ pc' = "sleep") =>
          \A i \in 1..Len(events) :
              events[i].end < clock => events[i].id \notin DOMAIN started_events']_vars

\* C31: a /check that has fetched the same events as the last /check to report
\* counts none of the events that that /check counted as new and stored
C31_CheckIdempotent ==
    (check.pc # "idle" /\ check.events = hist.told.events) =>
        check.fresh \cap hist.told.new = {}

\* C32: the step of the reminder loop that meets a joinable event whose start
\* is within the reminder window, and for which processed_events holds no entry
\* that the loop recorded with a reminder (such an entry has a start_time),
\* hands the UpcomingReminder to the bot, whatever /check has done
C32_CheckKeepsReminder ==
    [][(/\ pc = "remind" /\ idx <= Len(events)
        /\ events[idx].link /\ events[idx].shape = "ok"
        /\ USER_ID # None
        /\ 0 <= events[idx].start - now /\ events[idx].start - now <= REMINDER_MINUTES
        /\ events[idx].id \in DOMAIN processed_events =>
               "start_time" \notin DOMAIN processed_events[events[idx].id])
          => (pc' = "send_reminder" /\ Note("UpcomingReminder", events[idx]) \in sent')]_vars

\* C33: the step of the reminder loop that meets a joinable event whose start
\* is within the reminder window, and whose reminder on record was sent for an
\* earlier start, hands the UpcomingReminder for the new start to the bot.  (With
\* USER_ID set from the start, an entry is on record only after the send of its
\* reminder has returned.)
C33_RescheduledReminded ==
    [][(/\ pc = "remind" /\ idx <= Len(events)
        /\ events[idx].link /\ events[idx].shape = "ok"
        /\ USER_ID # None
        /\ 0 <= events[idx].start - now /\ events[idx].start - now <= REMINDER_MINUTES
        /\ events[idx].id \in DOMAIN processed_events
        /\ "start_time" \in DOMAIN processed_events[events[idx].id]
        /\ processed_events[events[idx].id]["start_time"] < events[idx].start)
          => (pc' = "send_reminder" /\ Note("UpcomingReminder", events[idx]) \in sent')]_vars

\* C36: after every step, a user whose token has been saved since it was last
\* deleted has one row: it holds the data of the last save, and its created_at
\* is the time of the first save since the row was last deleted; any other
\* user has no row.  What get_token returns is the data of the user's last
\* save, or None for a user without a row.  A save or a delete of one user's
\* token leaves the row of every other user as it was.
C36_TokenStore ==
    [][/\ \A u \in Users :
            IF hist'.saved[u] = <<>>
            THEN u \notin DOMAIN db'["tokens"]
            ELSE /\ u \in DOMAIN db'["tokens"]
                 /\ db'["tokens"][u].token_data = hist'.saved[u][1].last
                 /\ db'["tokens"][u].created_at = hist'.saved[u][1].first
       /\ (call'.seq # call.seq /\ call'.op = "get_token") =>
             call'.ret = IF hist.saved[call'.user] = <<>> THEN <<None>>
                         ELSE <<hist.saved[call'.user][1].last>>
       /\ (call'.seq # call.seq /\ call'.op \in {"save_token", "delete_token"}) =>
             \A v \in Users \ {call'.user} :
                 /\ (v \in DOMAIN db'["tokens"]) = (v \in DOMAIN db["tokens"])
                 /\ v \in DOMAIN db["tokens"] => db'["tokens"][v] = db["tokens"][v]]_vars

\* the token of u1 was saved, then saved again at a later time with other data
\* while u2 has a row of its own, and get_token has just returned u1's data
C36_Witness ==
    /\ call.op = "get_token" /\ call.user = "u1" /\ call.ret = <<"refreshed">>
    /\ "u2" \in DOMAIN db["tokens"]
    /\ db["tokens"]["u1"].created_at < db["tokens"]["u1"].updated_at
    /\ db["tokens"]["u1"].created_at > 0

\* C34: a call of process_auth_code for a user without a row in auth_states
\* returns failure and leaves the tokens and the auth states of all users as
\* they were
C34_NoSessionRejected ==
    [][(/\ call'.seq # call.seq /\ call'.op = "process_auth_code"
        /\ call'.user \notin DOMAIN db["auth_states"])
          => /\ call'.ret = <<FALSE>>
             /\ db'["tokens"] = db["tokens"]
             /\ db'["auth_states"] = db["auth_states"]]_vars

\* a user whose earlier code was taken (the token is stored, the state is
\* gone) has sent a code that the provider would take, and the call has failed
C34_Witness ==
    /\ call.op = "process_auth_code" /\ call.ret = <<FALSE>>
    /\ call.value = <<[state |-> FALSE, secrets |-> TRUE, exchange |-> TRUE]>>
    /\ call.user \in DOMAIN db["tokens"]
    /\ call.user \notin DOMAIN db["auth_states"]

\* C35: a call of process_auth_code that returns success had the user's auth
\* state, and leaves the user's token stored and the auth state deleted; a call
\* whose code exchange fails returns failure, and a call that returns failure
\* leaves the tokens and the auth states as they were; a user gets an auth
\* state only by a call of create_auth_url for that user
C35_SessionConsumed ==
    [][/\ (call'.seq # call.seq /\ call'.op = "process_auth_code") =>
             /\ call'.ret = <<TRUE>> =>
                   /\ call'.user \in DOMAIN db["auth_states"]
                   /\ call'.user \in DOMAIN db'["tokens"]
                   /\ db'["tokens"][call'.user].token_data = "token"
                   /\ call'.user \notin DOMAIN db'["auth_states"]
             /\ (call'.value[1].state /\ ~call'.value[1].exchange) =>
                   call'.ret = <<FALSE>>
             /\ call'.ret = <<FALSE>> =>
                   /\ db'["tokens"] = db["tokens"]
                   /\ db'["auth_states"] = db["auth_states"]
       /\ \A u \in DOMAIN db'["auth_states"] \ DOMAIN db["auth_states"] :
             call'.seq # call.seq /\ call'.op = "create_auth_url" /\ call'.user = u]_vars

\* the code of u1 has been taken: the token is stored and the state is gone,
\* while the state of u2 is still there
C35_Witness ==
    /\ call.op = "process_auth_code" /\ call.user = "u1" /\ call.ret = <<TRUE>>
    /\ "u1" \in DOMAIN db["tokens"] /\ "u1" \notin DOMAIN db["auth_states"]
    /\ "u2" \in DOMAIN db["auth_states"] /\ "u2" \notin DOMAIN db["tokens"]

\* C37: a /settoken whose text is a JSON object with the fields token and
\* refresh_token leaves the sender with a token file and as USER_ID; a /settoken
\* with any other text leaves the token files and USER_ID as they were
C37_SetTokenRejects ==
    [][(call'.seq # call.seq /\ call'.op = "settoken") =>
          IF call'.key = "object" /\ call'.value = <<{"token", "refresh_token"}>>
          THEN call'.user \in tokens' /\ USER_ID' = call'.user
          ELSE tokens' = tokens /\ USER_ID' = USER_ID]_vars

\* C38: a /week that has sent its progress message and whose fetch has
\* returned has sent the message that there are no meetings or the list of at
\* least one day
C38_WeekAnswers ==
    (call.op = "week" /\ call.ret[1].progress /\ call.value[1].fetched) =>
        (call.ret[1].none \/ call.ret[1].days # {})

====
